---- MODULE Spec2Model ----
(***************************************************************************)
(* State-machine model of mlst_phylo.py (class MLSTPhylogeny).             *)
(*                                                                         *)
(* Three specifications:                                                   *)
(*   Spec         : run(), i.e. parse_tsv_typing_list, filter_allele_matrix*)
(*                  the export of the allele matrix,                       *)
(*                  calculate_distance_matrix, the check of the distance   *)
(*                  matrix and the export of the distances;                *)
(*   SpecClassify : is_perfect applied to one record of a typing report;   *)
(*   SpecDistance : calculate_distance applied to two rows of the matrix.  *)
(*                                                                         *)
(* Text fields of a record are sequences of one-character strings, so that *)
(* float() and str.split('/') are computed rather than assumed.            *)
(* A pandas DataFrame is [index, columns, rows]: the row labels, the       *)
(* column labels and, per row, the sequence of its cells.                  *)
(***************************************************************************)
EXTENDS Integers, Sequences, FiniteSets, TLC

VARIABLES
    pc,              \* position in run() / in the classification
    args,            \* self._args: min_perc_loci, min_perc_samples
    tsv_in,          \* self._args.input_tsv with the content of each file
    df_alleles,      \* run(): df_alleles
    df_alleles_filt, \* run(): df_alleles_filt
    df_dists,        \* run(): df_dists
    output_matrix,   \* the file at --output-matrix
    output_dists,    \* the file at --output-dists
    record,          \* is_perfect(): the record
    verdict,         \* is_perfect(): what the call did
    row_a,           \* calculate_distance(): alleles_a
    row_b,           \* calculate_distance(): alleles_b
    total_dist       \* calculate_distance(): the value returned

vars == <<pc, args, tsv_in, df_alleles, df_alleles_filt, df_dists,
          output_matrix, output_dists, record, verdict,
          row_a, row_b, total_dist>>

\* Largest number of input files (--input-tsv is an 'append' argument).
MaxSamples == 2

\* Largest number of loci of the rows given to calculate_distance on its own.
MaxLoci == 3

\* A value not yet computed / a file not written.
None == [none |-> TRUE]

\* float('nan'): the cell pandas leaves where a dict has no key.
NaN == "NaN"

----------------------------------------------------------------------------
(* Text helpers *)

Digits == {"0", "1", "2", "3", "4", "5", "6", "7", "8", "9"}

DigitValue(c) ==
    CASE c = "0" -> 0 [] c = "1" -> 1 [] c = "2" -> 2 [] c = "3" -> 3
      [] c = "4" -> 4 [] c = "5" -> 5 [] c = "6" -> 6 [] c = "7" -> 7
      [] c = "8" -> 8 [] c = "9" -> 9

RECURSIVE Pow10(_)
Pow10(k) == IF k = 0 THEN 1 ELSE 10 * Pow10(k - 1)

RECURSIVE DigitsValue(_)
\* The number a sequence of digits denotes (0 for the empty sequence).
DigitsValue(s) ==
    IF s = <<>> THEN 0
    ELSE 10 * DigitsValue(SubSeq(s, 1, Len(s) - 1)) + DigitValue(s[Len(s)])

AllDigits(s) == \A i \in 1..Len(s) : s[i] \in Digits

\* Positions of character c in s.
Positions(s, c) == {i \in 1..Len(s) : s[i] = c}

\* float(text) for the decimal notations [digits][.digits] and for 'nan':
\* [ok |-> FALSE] is ValueError; otherwise the value is num / den, or nan.
ParseFloat(s) ==
    IF s = <<"n", "a", "n">> THEN [ok |-> TRUE, nan |-> TRUE, num |-> 0, den |-> 1]
    ELSE LET dots == Positions(s, ".") IN
         IF Cardinality(dots) > 1 THEN [ok |-> FALSE, nan |-> FALSE, num |-> 0, den |-> 1]
         ELSE LET d    == IF dots = {} THEN Len(s) + 1 ELSE CHOOSE i \in dots : TRUE
                  int  == SubSeq(s, 1, d - 1)
                  frac == SubSeq(s, d + 1, Len(s))
              IN  IF AllDigits(int) /\ AllDigits(frac) /\ Len(int) + Len(frac) > 0
                  THEN [ok |-> TRUE, nan |-> FALSE,
                        num |-> DigitsValue(int) * Pow10(Len(frac)) + DigitsValue(frac),
                        den |-> Pow10(Len(frac))]
                  ELSE [ok |-> FALSE, nan |-> FALSE, num |-> 0, den |-> 1]

\* identity != 100.0 on a parsed float (nan differs from every number).
NotHundred(f) == f.nan \/ f.num # 100 * f.den

RECURSIVE Split(_, _)
\* text.split(sep): the parts between the separators, in order.
Split(s, sep) ==
    LET at == Positions(s, sep) IN
    IF at = {} THEN <<s>>
    ELSE LET i == CHOOSE k \in at : \A m \in at : k <= m
         IN  <<SubSeq(s, 1, i - 1)>> \o Split(SubSeq(s, i + 1, Len(s)), sep)

----------------------------------------------------------------------------
(* is_perfect *)

\* is_perfect with the two lengths compared as numbers, not as text.
is_perfect_numeric(r) ==
    IF r.Allele \in {"-", "?"} THEN "False"
    ELSE LET identity == ParseFloat(r.Identity) IN
         IF ~identity.ok THEN "False"
         ELSE IF NotHundred(identity) THEN "False"
         ELSE LET parts == Split(r.Length, "/") IN
              IF Len(parts) # 2 THEN "ValueError"
              ELSE IF AllDigits(parts[1]) /\ AllDigits(parts[2])
                      /\ DigitsValue(parts[1]) = DigitsValue(parts[2])
                   THEN "True"
              ELSE IF ~(parts[1] = parts[2]) THEN "False"
              ELSE "True"

\* The outcome of is_perfect(record): "True", "False", or "ValueError" when
\* the two-name unpacking of split('/') does not get exactly two parts.
is_perfect(r) ==
    IF r.Allele \in {"-", "?"} THEN "False"
    ELSE LET identity == ParseFloat(r.Identity) IN
         IF ~identity.ok THEN "False"
         ELSE IF NotHundred(identity) THEN "False"
         ELSE LET parts == Split(r.Length, "/") IN
              IF Len(parts) # 2 THEN "ValueError"
              ELSE IF ~(parts[1] = parts[2]) THEN "False"
              ELSE "True"

\* Values of the '% Identity' column.
IdentityTexts ==
    { <<"1", "0", "0", ".", "0", "0">>, <<"1", "0", "0">>, <<"1", "0", "0", ".">>,
      <<"9", "9", ".", "9", "9">>, <<"1", "0", "0", ".", "0", "1">>,
      <<"1", "0">>, <<"n", "a", "n">>, <<"-">>, <<"1", ".", "0", ".", "0">>, <<>> }

\* Values of the 'HSP/Locus length' column.
LengthTexts ==
    { <<"9", "/", "9">>, <<"7", "/", "8">>, <<"0", "9", "/", "9">>,
      <<"1", "2", "/", "1", "2">>, <<"/">>, <<"9">>, <<"9", "/", "9", "/", "9">> }

\* Values of the 'Allele' column.
AlleleTexts == {"-", "?", "1", "2"}

LocusNames == <<"L1", "L2">>

Loci == {LocusNames[i] : i \in 1..Len(LocusNames)}

Records ==
    [Locus : {"L1"}, Allele : AlleleTexts, Identity : IdentityTexts, Length : LengthTexts]

----------------------------------------------------------------------------
(* Sequence helpers *)

Range(s) == {s[i] : i \in 1..Len(s)}

RECURSIVE Pick(_, _)
\* The elements of s at the positions in keep, in the order of s.
Pick(s, keep) ==
    IF s = <<>> THEN <<>>
    ELSE Pick(SubSeq(s, 1, Len(s) - 1), keep)
         \o (IF Len(s) \in keep THEN <<s[Len(s)]>> ELSE <<>>)

RECURSIVE Unique(_)
\* The distinct elements of s in the order each is first seen.
Unique(s) ==
    IF s = <<>> THEN <<>>
    ELSE LET head == Unique(SubSeq(s, 1, Len(s) - 1)) IN
         IF s[Len(s)] \in Range(head) THEN head ELSE Append(head, s[Len(s)])

RECURSIVE Concat(_)
Concat(ss) == IF ss = <<>> THEN <<>> ELSE ss[1] \o Concat(Tail(ss))

\* int(a / b) for b > 0: Python's int() drops the fraction, towards zero.
PyInt(a, b) == IF a >= 0 THEN a \div b ELSE -((-a) \div b)

----------------------------------------------------------------------------
(* parse_tsv_typing_list *)

\* {r['Locus']: r['Allele'] if r['is_perfect_hit'] else '-' for r in rows}:
\* a key keeps the place of its first row and the value of its last row.
\* (The rows of Reports all have a two-component length, so that is_perfect
\* returns for each of them.)
alleles_parsed(rows) ==
    LET keys == Unique([i \in 1..Len(rows) |-> rows[i].Locus])
        last(l) == CHOOSE i \in 1..Len(rows) :
                      /\ rows[i].Locus = l
                      /\ \A k \in 1..Len(rows) : rows[k].Locus = l => k <= i
    IN  [keys |-> keys,
         get  |-> [l \in Range(keys) |->
                     IF is_perfect(rows[last(l)]) = "True"
                     THEN rows[last(l)].Allele ELSE "-"]]

\* pd.DataFrame(allele_data, index=sample_names, dtype=str): the columns are
\* the keys of the dicts in first-seen order; a dict without the key of a
\* column gets NaN in that column.
parse_tsv_typing_list(files) ==
    LET allele_data == [i \in 1..Len(files) |-> alleles_parsed(files[i].rows)]
        columns == Unique(Concat([i \in 1..Len(files) |-> allele_data[i].keys]))
    IN  [index   |-> [i \in 1..Len(files) |-> files[i].name],
         columns |-> columns,
         rows    |-> [i \in 1..Len(files) |->
                        [j \in 1..Len(columns) |->
                           IF columns[j] \in Range(allele_data[i].keys)
                           THEN allele_data[i].get[columns[j]] ELSE NaN]]]

----------------------------------------------------------------------------
(* filter_allele_matrix *)

\* len(x) - list(x).count('-') over row i.
nb_loci_detected(df, i) ==
    Cardinality({j \in 1..Len(df.columns) : df.rows[i][j] # "-"})

\* len(x) - list(x).count('-') over column j.
locus_present_in_datasets(df, j) ==
    Cardinality({i \in 1..Len(df.index) : df.rows[i][j] # "-"})

cutoff_loci(df, a) == PyInt(a.min_perc_loci * Len(df.columns), 100)

cutoff_datasets(df_filt, a) == PyInt(a.min_perc_samples * Len(df_filt.index), 100)

\* allele_data[mask]: the rows at the positions in keep.
SelectRows(df, keep) ==
    [index   |-> Pick(df.index, keep),
     columns |-> df.columns,
     rows    |-> Pick(df.rows, keep)]

\* A column filter that blanks the cells of the dropped columns in place.
SelectColumns_blank(df, keep) ==
    [index   |-> df.index,
     columns |-> df.columns,
     rows    |-> [i \in 1..Len(df.index) |->
                    [j \in 1..Len(df.columns) |->
                       IF j \in keep THEN df.rows[i][j] ELSE "-"]]]

\* allele_data_filt.iloc[:, mask]: the columns at the positions in keep.
SelectColumns(df, keep) ==
    [index   |-> df.index,
     columns |-> Pick(df.columns, keep),
     rows    |-> [i \in 1..Len(df.index) |-> Pick(df.rows[i], keep)]]

\* nb_loci_detected > cutoff_loci
DatasetsPassed(df, a) ==
    {i \in 1..Len(df.index) : nb_loci_detected(df, i) > cutoff_loci(df, a)}

\* locus_present_in_datasets > cutoff_datasets
LociPassed(df_filt, a) ==
    {j \in 1..Len(df_filt.columns) :
        locus_present_in_datasets(df_filt, j) > cutoff_datasets(df_filt, a)}

filter_allele_matrix(df, a) ==
    LET allele_data_filt == SelectRows(df, DatasetsPassed(df, a))
    IN  SelectColumns(allele_data_filt, LociPassed(allele_data_filt, a))

----------------------------------------------------------------------------
(* calculate_distance, calculate_distance_matrix *)

\* allele_a == allele_b in Python: float('nan') equals nothing, itself included.
PyEq(x, y) == x # NaN /\ y # NaN /\ x = y

RECURSIVE calculate_distance(_, _)
\* The loop over zip(alleles_a, alleles_b), which stops with the shorter one.
calculate_distance(alleles_a, alleles_b) ==
    IF alleles_a = <<>> \/ alleles_b = <<>> THEN 0
    ELSE (IF alleles_a[1] = "-" /\ alleles_b[1] = "-" THEN 0
          ELSE IF PyEq(alleles_a[1], alleles_b[1]) THEN 0 ELSE 1)
         + calculate_distance(Tail(alleles_a), Tail(alleles_b))

\* What iterating df.loc[label] yields: the cells of the row when the label
\* names one row (a Series); the column labels when it names several rows
\* (a DataFrame).
Loc(df, label) ==
    LET at == {i \in 1..Len(df.index) : df.index[i] = label} IN
    IF Cardinality(at) = 1 THEN df.rows[CHOOSE i \in at : TRUE] ELSE df.columns

\* The input file names, in the order sorted() gives them.
FileNames == <<"a.tsv", "b.tsv">>

NameRank(n) == CHOOSE k \in 1..Len(FileNames) : FileNames[k] = n

\* tuple(sorted([dataset_a, dataset_b]))
SortedKey(dataset_a, dataset_b) ==
    IF NameRank(dataset_a) <= NameRank(dataset_b)
    THEN <<dataset_a, dataset_b>> ELSE <<dataset_b, dataset_a>>

\* itertools.combinations(range(n), r=2), as the set of its position pairs.
Combinations(n) == {c \in (1..n) \X (1..n) : c[1] < c[2]}

\* distance_by_dataset_pair: the keys set by the loop over the combinations,
\* each with the distance of the last pair that set it.
distance_by_dataset_pair(df) ==
    LET pairs == Combinations(Len(df.index))
        key(c) == SortedKey(df.index[c[1]], df.index[c[2]])
        last(k) == CHOOSE c \in pairs :
                      /\ key(c) = k
                      /\ \A d \in pairs : key(d) = k =>
                            \/ d[1] < c[1]
                            \/ (d[1] = c[1] /\ d[2] <= c[2])
    IN  [k \in {key(c) : c \in pairs} |->
           calculate_distance(Loc(df, df.index[last(k)[1]]),
                              Loc(df, df.index[last(k)[2]]))]

\* distance_by_dataset_pair.get(tuple(sorted([dataset_a, dataset_b])), 0)
GetDistance(dists, dataset_a, dataset_b) ==
    IF SortedKey(dataset_a, dataset_b) \in DOMAIN dists
    THEN dists[SortedKey(dataset_a, dataset_b)] ELSE 0

\* pd.DataFrame(records_out, index=allele_data_filtered.index): one record
\* per row label; the keys of a record, hence the columns, are the distinct
\* row labels in first-seen order.
calculate_distance_matrix(df) ==
    LET dists   == distance_by_dataset_pair(df)
        columns == Unique(df.index)
    IN  [index   |-> df.index,
         columns |-> columns,
         rows    |-> [i \in 1..Len(df.index) |->
                        [j \in 1..Len(columns) |->
                           GetDistance(dists, df.index[i], columns[j])]]]

\* max(values) of a row of numbers.
Max(values) == CHOOSE m \in Range(values) : \A v \in Range(values) : v <= m

\* The check with any() in the place of all().
EmptyDistanceMatrix_any(df) == \E i \in 1..Len(df.index) : Max(df.rows[i]) = 0

\* all(max(values) == 0 for _, values in df_dists.iterrows())
EmptyDistanceMatrix(df) == \A i \in 1..Len(df.index) : Max(df.rows[i]) = 0

----------------------------------------------------------------------------
(* Inputs *)

\* Values of --min-perc-loci and --min-perc-samples (type=int, default 90).
PercValues == {10, 50}

\* A perfect hit of allele a at locus l.
Hit(l, a) ==
    [Locus |-> l, Allele |-> a,
     Identity |-> <<"1", "0", "0", ".", "0", "0">>, Length |-> <<"9", "/", "9">>]

\* A full-identity hit of allele "1" at locus l over a part of the locus.
Partial(l) ==
    [Locus |-> l, Allele |-> "1",
     Identity |-> <<"1", "0", "0", ".", "0", "0">>, Length |-> <<"7", "/", "8">>]

\* The alleles of the typing scheme: two at the first locus, one at the others.
AllelesOf(l) == IF l = LocusNames[1] THEN {"1", "2"} ELSE {"1"}

\* Rows of the typing reports given to run().
ReportRows ==
    UNION {{Hit(l, a) : a \in AllelesOf(l)} \cup {Partial(l)} : l \in Loci}

RECURSIVE ReportsOver(_)
\* The reports over the loci l: per locus no row or one row, in the order of l.
ReportsOver(l) ==
    IF l = <<>> THEN {<<>>}
    ELSE {head \o rest :
             head \in {<<>>} \cup {<<r>> : r \in {x \in ReportRows : x.Locus = l[1]}},
             rest \in ReportsOver(Tail(l))}

\* The content of a typing report.
Reports == ReportsOver(LocusNames)

InputFiles == [name : Range(FileNames), rows : Reports]

----------------------------------------------------------------------------
(* run() *)

Init ==
    /\ pc = "start"
    /\ args \in [min_perc_loci : PercValues, min_perc_samples : PercValues]
    /\ tsv_in \in UNION {[1..n -> InputFiles] : n \in 1..MaxSamples}
    /\ df_alleles = None
    /\ df_alleles_filt = None
    /\ df_dists = None
    /\ output_matrix = None
    /\ output_dists = None
    /\ record = None
    /\ verdict = None
    /\ row_a = None
    /\ row_b = None
    /\ total_dist = None

\* df_alleles = self.parse_tsv_typing_list(self._args.input_tsv)
Parse ==
    /\ pc = "start"
    /\ df_alleles' = parse_tsv_typing_list(tsv_in)
    /\ pc' = "parsed"
    /\ UNCHANGED <<args, tsv_in, df_alleles_filt, df_dists, output_matrix,
                   output_dists, record, verdict,
                   row_a, row_b, total_dist>>

\* df_alleles_filt = self.filter_allele_matrix(df_alleles)
Filter ==
    /\ pc = "parsed"
    /\ df_alleles_filt' = filter_allele_matrix(df_alleles, args)
    /\ pc' = "filtered"
    /\ UNCHANGED <<args, tsv_in, df_alleles, df_dists, output_matrix,
                   output_dists, record, verdict,
                   row_a, row_b, total_dist>>

\* df_alleles_filt.to_csv(self._args.output_matrix, ...)
ExportMatrix ==
    /\ pc = "filtered"
    /\ output_matrix' = df_alleles_filt
    /\ pc' = "matrix_exported"
    /\ UNCHANGED <<args, tsv_in, df_alleles, df_alleles_filt, df_dists,
                   output_dists, record, verdict,
                   row_a, row_b, total_dist>>

\* df_dists = self.calculate_distance_matrix(df_alleles_filt)
CalculateDistances ==
    /\ pc = "matrix_exported"
    /\ df_dists' = calculate_distance_matrix(df_alleles_filt)
    /\ pc' = "dists_calculated"
    /\ UNCHANGED <<args, tsv_in, df_alleles, df_alleles_filt, output_matrix,
                   output_dists, record, verdict,
                   row_a, row_b, total_dist>>

\* raise ValueError('Empty distance matrix')
RaiseEmpty ==
    /\ pc = "dists_calculated"
    /\ EmptyDistanceMatrix(df_dists)
    /\ pc' = "ValueError"
    /\ UNCHANGED <<args, tsv_in, df_alleles, df_alleles_filt, df_dists,
                   output_matrix, output_dists, record, verdict,
                   row_a, row_b, total_dist>>

\* The export moved before the check of the distance matrix.
ExportDists_unchecked ==
    /\ pc = "dists_calculated"
    /\ output_dists' = df_dists
    /\ pc' = IF EmptyDistanceMatrix(df_dists) THEN "ValueError" ELSE "done"
    /\ UNCHANGED <<args, tsv_in, df_alleles, df_alleles_filt, df_dists,
                   output_matrix, record, verdict,
                   row_a, row_b, total_dist>>

\* df_dists.to_csv(self._args.output_dists, ...), then run() returns
ExportDists ==
    /\ pc = "dists_calculated"
    /\ ~EmptyDistanceMatrix(df_dists)
    /\ output_dists' = df_dists
    /\ pc' = "done"
    /\ UNCHANGED <<args, tsv_in, df_alleles, df_alleles_filt, df_dists,
                   output_matrix, record, verdict,
                   row_a, row_b, total_dist>>

Next ==
    \/ Parse
    \/ Filter
    \/ ExportMatrix
    \/ CalculateDistances
    \/ RaiseEmpty
    \/ ExportDists

Spec == Init /\ [][Next]_vars

----------------------------------------------------------------------------
(* is_perfect on one record *)

InitClassify ==
    /\ pc = "classify"
    /\ record \in Records
    /\ verdict = None
    /\ args = None
    /\ tsv_in = None
    /\ df_alleles = None
    /\ df_alleles_filt = None
    /\ df_dists = None
    /\ output_matrix = None
    /\ output_dists = None
    /\ row_a = None
    /\ row_b = None
    /\ total_dist = None

\* data_tsv.apply(lambda x: MLSTPhylogeny.is_perfect(x), axis=1), one row
Classify ==
    /\ pc = "classify"
    /\ verdict' = is_perfect(record)
    /\ pc' = "classified"
    /\ UNCHANGED <<args, tsv_in, df_alleles, df_alleles_filt, df_dists,
                   output_matrix, output_dists, record,
                   row_a, row_b, total_dist>>

NextClassify == Classify

SpecClassify == InitClassify /\ [][NextClassify]_vars

----------------------------------------------------------------------------
(* calculate_distance on two rows *)

\* Cells of a row of the allele matrix: allele identifiers, the missing
\* sentinel, and the NaN of a locus the sample has no record of.
Cells == {"1", "2", "3", "-", NaN}

InitDistance ==
    /\ pc = "distance"
    /\ \E n \in 0..MaxLoci :
          /\ row_a \in [1..n -> Cells]
          /\ row_b \in [1..n -> Cells]
    /\ total_dist = None
    /\ record = None
    /\ verdict = None
    /\ args = None
    /\ tsv_in = None
    /\ df_alleles = None
    /\ df_alleles_filt = None
    /\ df_dists = None
    /\ output_matrix = None
    /\ output_dists = None

\* dist = MLSTPhylogeny.calculate_distance(row of dataset_a, row of dataset_b)
Distance ==
    /\ pc = "distance"
    /\ total_dist' = calculate_distance(row_a, row_b)
    /\ pc' = "returned"
    /\ UNCHANGED <<args, tsv_in, df_alleles, df_alleles_filt, df_dists,
                   output_matrix, output_dists, record, verdict,
                   row_a, row_b>>

NextDistance == Distance

SpecDistance == InitDistance /\ [][NextDistance]_vars

----------------------------------------------------------------------------
(* Vocabulary of the claims *)

\* A cell without a call: the missing sentinel, or no value at all.
Missing(cell) == cell \in {"-", NaN}

\* Number of cells of row i with a call.
CallsOfSample(df, i) ==
    Cardinality({j \in 1..Len(df.columns) : ~Missing(df.rows[i][j])})

\* Number of the rows in among with a call at column j.
CallsOfLocus(df, among, j) ==
    Cardinality({i \in among : ~Missing(df.rows[i][j])})

\* floor(a / b) for b > 0.
Floor(a, b) == a \div b

\* The rows of file i at locus l.
RowsAt(i, l) == {k \in 1..Len(tsv_in[i].rows) : tsv_in[i].rows[k].Locus = l}

\* The strictly increasing maps from 1..k into 1..n.
Increasing(k, n) ==
    {f \in [1..k -> 1..n] : \A x, y \in 1..k : x < y => f[x] < f[y]}

\* The texts of two cells differ; a cell without a value has the empty text.
TextDiffers(x, y) == x # y

----------------------------------------------------------------------------
(* C1 *)

\* C1: after parse_tsv_typing_list the matrix has one column per locus seen
\* in any sample, every sample has a cell at every column, and a cell whose
\* sample has no record for the locus holds the missing sentinel "-".
C1_AssemblyTotalWithSentinel ==
    df_alleles # None =>
        LET seen == UNION {{tsv_in[i].rows[k].Locus : k \in 1..Len(tsv_in[i].rows)}
                           : i \in 1..Len(tsv_in)}
        IN  /\ Range(df_alleles.columns) = seen
            /\ Len(df_alleles.columns) = Cardinality(seen)
            /\ Len(df_alleles.index) = Len(tsv_in)
            /\ \A i \in 1..Len(tsv_in) :
                  /\ Len(df_alleles.rows[i]) = Len(df_alleles.columns)
                  /\ \A j \in 1..Len(df_alleles.columns) :
                        RowsAt(i, df_alleles.columns[j]) = {}
                            => df_alleles.rows[i][j] = "-"

----------------------------------------------------------------------------
(* C2 *)

\* (1) the allele is neither "-" nor "?"
AlleleCalled(r) == r.Allele # "-" /\ r.Allele # "?"

\* (2) the identity parses as a float and the value is exactly 100.0
IdentityHundred(r) ==
    /\ ParseFloat(r.Identity).ok
    /\ ~ParseFloat(r.Identity).nan
    /\ ParseFloat(r.Identity).num = 100 * ParseFloat(r.Identity).den

\* The length field has exactly one "/", hence two components.
TwoComponents(r) == Cardinality(Positions(r.Length, "/")) = 1

\* (3) the two components of the length field are the same text
SameLengthText(r) ==
    /\ TwoComponents(r)
    /\ LET at == CHOOSE i \in Positions(r.Length, "/") : TRUE
       IN  SubSeq(r.Length, 1, at - 1) = SubSeq(r.Length, at + 1, Len(r.Length))

----------------------------------------------------------------------------
(* C3, C4, C10: the two filters *)

\* filter_allele_matrix has returned.
Filtered == pc \in {"filtered", "matrix_exported", "dists_calculated", "ValueError", "done"}

\* C3: a sample is retained if and only if its number of non-missing cells
\* is strictly greater than floor(min_perc_loci * total_locus_count / 100),
\* so that a sample without any call is always dropped.
C3_SampleFilter ==
    Filtered =>
        LET n == Len(df_alleles.index)
            cutoff == Floor(args.min_perc_loci * Len(df_alleles.columns), 100)
            retained == {i \in 1..n : CallsOfSample(df_alleles, i) > cutoff}
        IN  /\ DatasetsPassed(df_alleles, args) = retained
            /\ Len(df_alleles_filt.index) = Cardinality(retained)
            /\ \A i \in 1..n :
                  CallsOfSample(df_alleles, i) = 0 => i \notin DatasetsPassed(df_alleles, args)

\* C4: a locus is retained if and only if the number of retained samples
\* with a non-missing call at it is strictly greater than
\* floor(min_perc_samples * retained_sample_count / 100).
C4_LocusFilter ==
    Filtered =>
        LET passed == DatasetsPassed(df_alleles, args)
            cutoff == Floor(args.min_perc_samples * Cardinality(passed), 100)
            retained == {j \in 1..Len(df_alleles.columns) :
                            CallsOfLocus(df_alleles, passed, j) > cutoff}
        IN  df_alleles_filt.columns = Pick(df_alleles.columns, retained)

\* C10: as the docstring says, a dataset with at least min_perc_loci percent
\* of the loci detected is retained, and so is a locus present in at least
\* min_perc_samples percent of the retained datasets (whenever there are
\* loci, and retained datasets, to take the percentage of).
C10_AsDocumented ==
    Filtered =>
        LET passed == DatasetsPassed(df_alleles, args)
            kept == SelectRows(df_alleles, passed)
        IN  /\ \A i \in 1..Len(df_alleles.index) :
                  /\ Len(df_alleles.columns) > 0
                  /\ CallsOfSample(df_alleles, i) * 100
                        >= args.min_perc_loci * Len(df_alleles.columns)
                  => i \in passed
            /\ \A j \in 1..Len(df_alleles.columns) :
                  /\ passed # {}
                  /\ CallsOfLocus(df_alleles, passed, j) * 100
                        >= args.min_perc_samples * Cardinality(passed)
                  => j \in LociPassed(kept, args)

----------------------------------------------------------------------------
(* C5 *)

\* C5: calculate_distance(A, B) is the number of loci at which the two calls
\* differ in text, the same for (B, A), and between 0 and the number of loci.
C5_TextualDifferences ==
    pc = "returned" =>
        /\ total_dist = Cardinality({j \in 1..Len(row_a) : TextDiffers(row_a[j], row_b[j])})
        /\ total_dist = calculate_distance(row_b, row_a)
        /\ total_dist \in 0..Len(row_a)

----------------------------------------------------------------------------
(* C6, C7 *)

\* calculate_distance_matrix has returned.
DistsCalculated == pc \in {"dists_calculated", "ValueError", "done"}

\* C6: the distance matrix is square over the sample identifiers of the
\* filtered matrix in row order, its cells are non-negative, cell (A, B)
\* equals cell (B, A), the diagonal is 0 and an off-diagonal cell is the
\* calculate_distance of the two rows.
C6_SquareSymmetric ==
    DistsCalculated =>
        LET ids == df_alleles_filt.index IN
        /\ df_dists.index = ids
        /\ df_dists.columns = ids
        /\ \A i, j \in 1..Len(ids) :
              /\ df_dists.rows[i][j] >= 0
              /\ df_dists.rows[i][j] = df_dists.rows[j][i]
              /\ i = j => df_dists.rows[i][j] = 0
              /\ i # j => df_dists.rows[i][j] =
                             calculate_distance(df_alleles_filt.rows[i],
                                                df_alleles_filt.rows[j])

\* Every cell of the distance matrix between two different samples is 0.
OffDiagonalZero ==
    \A i \in 1..Len(df_dists.index), j \in 1..Len(df_dists.columns) :
        df_dists.index[i] # df_dists.columns[j] => df_dists.rows[i][j] = 0

\* C7: run() ends with ValueError('Empty distance matrix') if and only if
\* every off-diagonal cell of the distance matrix is 0, which includes the
\* filtered matrices with no sample, with one sample and with no locus.
C7_EmptyIffOffDiagonalZero ==
    pc \in {"ValueError", "done"} =>
        /\ pc = "ValueError" <=> OffDiagonalZero
        /\ (Len(df_alleles_filt.index) <= 1 \/ Len(df_alleles_filt.columns) = 0)
              => pc = "ValueError"

\* The filter left no sample and run() has raised.
C7_Witness ==
    /\ pc = "ValueError"
    /\ Len(df_alleles_filt.index) = 0
    /\ Len(df_alleles.index) = 2

----------------------------------------------------------------------------
(* C8 *)

\* C8: the allele matrix is written before the distance matrix is computed,
\* the distance matrix is written only after the check has passed; a run
\* that raises has written the allele matrix and not the distance matrix,
\* a run that returns has written both.
C8_OutputOrder ==
    /\ DistsCalculated => output_matrix = df_alleles_filt
    /\ output_dists # None => (pc = "done" /\ output_matrix # None)
    /\ pc = "ValueError" => (output_dists = None /\ output_matrix = df_alleles_filt)
    /\ pc = "done" => (output_matrix = df_alleles_filt /\ output_dists = df_dists)

\* A run has raised after the export of a matrix that still has samples.
C8_Witness ==
    /\ pc = "ValueError"
    /\ output_matrix = df_alleles_filt
    /\ Len(output_matrix.index) = 2
    /\ output_dists = None

----------------------------------------------------------------------------
(* C9 *)

\* C9: the filtered matrix is the input with whole rows and whole columns
\* removed: its samples and loci are sub-sequences of the input's, in the
\* input's order, every row has a cell at exactly the retained loci, every
\* cell has the value it has in the input; the input is left as parsed
\* (stated of the state in which filter_allele_matrix returns).
C9_SubMatrix ==
    pc = "filtered" =>
        /\ df_alleles = parse_tsv_typing_list(tsv_in)
        /\ Len(df_alleles_filt.rows) = Len(df_alleles_filt.index)
        /\ \A i \in 1..Len(df_alleles_filt.index) :
              Len(df_alleles_filt.rows[i]) = Len(df_alleles_filt.columns)
        /\ \E r \in Increasing(Len(df_alleles_filt.index), Len(df_alleles.index)) :
           \E c \in Increasing(Len(df_alleles_filt.columns), Len(df_alleles.columns)) :
              /\ \A i \in DOMAIN r : df_alleles_filt.index[i] = df_alleles.index[r[i]]
              /\ \A j \in DOMAIN c : df_alleles_filt.columns[j] = df_alleles.columns[c[j]]
              /\ \A i \in DOMAIN r : \A j \in DOMAIN c :
                    df_alleles_filt.rows[i][j] = df_alleles.rows[r[i]][c[j]]

\* The filter has removed a locus and kept another, with two samples left.
C9_Witness ==
    /\ Filtered
    /\ Len(df_alleles_filt.index) = 2
    /\ Len(df_alleles.columns) = 2
    /\ Len(df_alleles_filt.columns) = 1

====
